---- MODULE Spec2Model ----
(***************************************************************************)
(* A model of the Timely API MCP server (src/main.py): the credential      *)
(* provider, the process-wide token cache, the request executor with its   *)
(* status-to-error mapping, and the tool functions built on top of them.   *)
(*                                                                         *)
(* Python values are modelled as tagged JSON values, exceptions as records *)
(* of a class and a message, and a message as the sequence of the parts    *)
(* its f-string concatenates.                                              *)
(***************************************************************************)
EXTENDS Integers, Sequences, FiniteSets, TLC

VARIABLES
    environ,         \* os.environ: the four NANGO_* settings
    requestsCompat,  \* which exception class the installed requests raises from response.json()
    ACCESS_TOKEN,    \* the module global of main.py:29
    brokerCalls,     \* number of HTTP requests sent to the credential broker so far
    last,            \* observation of the most recent completed call
    brokerBad,       \* history: the broker has answered with something other than a token
    everValid,       \* history: ACCESS_TOKEN has held a non-empty token
    pc,              \* per thread: position inside get_access_token (interleaved runs)
    credentials,     \* per thread: the local variable `credentials` of get_access_token
    retval           \* per thread: how its get_access_token call ended

vars == <<environ, requestsCompat, ACCESS_TOKEN, brokerCalls, last, brokerBad,
          everValid, pc, credentials, retval>>

(***************************************************************************)
(* Bounds of the model.                                                    *)
(***************************************************************************)
MaxFetches == 2
MaxThreads == 2

(***************************************************************************)
(* Python / JSON values.                                                   *)
(***************************************************************************)
EmptyMap == [k \in {} |-> 0]

JNull == [t |-> "null"]
JStr(s) == [t |-> "str", s |-> s]
JInt(n) == [t |-> "int", n |-> n]
JBool(b) == [t |-> "bool", b |-> b]
JObj(f) == [t |-> "obj", o |-> f]
JArr(q) == [t |-> "arr", a |-> q]

\* bool(v) as Python computes it
Truthy(v) ==
    CASE v.t = "null" -> FALSE
      [] v.t = "str"  -> v.s # ""
      [] v.t = "int"  -> v.n # 0
      [] v.t = "bool" -> v.b
      [] v.t = "obj"  -> DOMAIN v.o # {}
      [] v.t = "arr"  -> Len(v.a) # 0

\* whether v has a .get method (only dict has)
HasGet(v) == v.t = "obj"

\* d.get(k, default) for a dict d
DictGet(d, k, default) == IF k \in DOMAIN d.o THEN d.o[k] ELSE default

(***************************************************************************)
(* Exceptions.  A message is a sequence of parts.                          *)
(***************************************************************************)
Lit(s) == [s |-> s]
Num(n) == [n |-> n]
Val(v) == [v |-> v]

Exc(cls, msg) == [cls |-> cls, msg |-> msg]
NoExc == Exc("none", <<>>)
ApiError(msg) == Exc("ApiError", msg)

\* class hierarchy of the exceptions the requests library raises
IsRequestException(cls) ==
    cls \in {"ConnectionError", "Timeout", "HTTPError", "RequestsJSONDecodeError"}
IsJSONDecodeError(cls) ==
    cls \in {"JSONDecodeError", "RequestsJSONDecodeError"}

\* outcome of evaluating an expression or a call
Returned(v) == [raised |-> FALSE, value |-> v, exc |-> NoExc]
Raised(e) == [raised |-> TRUE, value |-> JNull, exc |-> e]

(***************************************************************************)
(* HTTP responses as the requests library presents them.                   *)
(***************************************************************************)
EmptyBody == [t |-> "empty"]
GarbageBody == [t |-> "garbage"]
JsonBody(v) == [t |-> "json", j |-> v]

HttpResponse(status, reason, body) ==
    [t |-> "http", status |-> status, reason |-> reason, body |-> body, err |-> NoExc]
TransportError(cls, text) ==
    [t |-> "transport", status |-> 0, reason |-> "", body |-> EmptyBody,
     err |-> Exc(cls, <<Lit(text)>>)]
NoResponse ==
    [t |-> "none", status |-> 0, reason |-> "", body |-> EmptyBody, err |-> NoExc]

\* response.content is falsy exactly for an empty body
HasContent(body) == body.t # "empty"

\* response.json(): the parsed body, or the library's JSON decode error
ResponseJson(compat, body) ==
    IF body.t = "json"
    THEN Returned(body.j)
    ELSE Raised(Exc(IF compat = "modern" THEN "RequestsJSONDecodeError"
                                          ELSE "JSONDecodeError",
                    <<Lit("Expecting value")>>))

\* response.raise_for_status()
RaiseForStatus(resp) ==
    IF resp.status >= 400 /\ resp.status < 600
    THEN Raised(Exc("HTTPError", <<Num(resp.status), Lit(" Error: "), Lit(resp.reason)>>))
    ELSE Returned(JNull)

(***************************************************************************)
(* Credential Provider: get_connection_credentials.                       *)
(***************************************************************************)
EnvNames == {"NANGO_CONNECTION_ID", "NANGO_INTEGRATION_ID", "NANGO_BASE_URL",
             "NANGO_SECRET_KEY"}

\* the completeness test of line 39 with secret_key left out of the list
ConfigComplete_IgnoresSecret(env) ==
    \A k \in EnvNames \ {"NANGO_SECRET_KEY"} : Truthy(env[k])

\* all([id, integration_id, base_url, secret_key])
ConfigComplete(env) == \A k \in EnvNames : Truthy(env[k])

MissingConfigError ==
    ApiError(<<Lit("Missing Nango configuration. Please set NANGO_CONNECTION_ID, NANGO_INTEGRATION_ID, NANGO_BASE_URL, and NANGO_SECRET_KEY environment variables.")>>)

\* the try block of get_connection_credentials: requests.get, raise_for_status, json
BrokerExchange(compat, resp) ==
    IF resp.t = "transport" THEN Raised(resp.err)
    ELSE IF RaiseForStatus(resp).raised THEN RaiseForStatus(resp)
    ELSE ResponseJson(compat, resp.body)

\* result: the outcome plus `sent`, the number of HTTP requests made to the broker
get_connection_credentials(env, compat, resp) ==
    IF ~ConfigComplete(env)
    THEN [raised |-> TRUE, value |-> JNull, exc |-> MissingConfigError, sent |-> 0]
    ELSE LET r == BrokerExchange(compat, resp)
         IN  IF r.raised /\ IsRequestException(r.exc.cls)
             THEN [raised |-> TRUE, value |-> JNull, sent |-> 1,
                   exc |-> ApiError(<<Lit("Failed to get credentials from Nango: ")>>
                                    \o r.exc.msg)]
             ELSE [raised |-> r.raised, value |-> r.value, exc |-> r.exc, sent |-> 1]

(***************************************************************************)
(* Token Cache: get_access_token.                                          *)
(***************************************************************************)
AttributeError == Exc("AttributeError", <<Lit("object has no attribute 'get'")>>)

\* credentials.get("credentials", {}).get("access_token")
ExtractAccessToken(creds) ==
    IF ~HasGet(creds) THEN Raised(AttributeError)
    ELSE LET inner == DictGet(creds, "credentials", JObj(EmptyMap))
         IN  IF ~HasGet(inner) THEN Raised(AttributeError)
             ELSE Returned(DictGet(inner, "access_token", JNull))

NoTokenError == ApiError(<<Lit("No access token found in Nango credentials")>>)

\* the two except clauses of get_access_token
AccessTokenExcept(e) ==
    IF e.cls = "ApiError" THEN e
    ELSE ApiError(<<Lit("Error retrieving access token: ")>> \o e.msg)

\* get_access_token without the cache test of line 62: fetches on every call
get_access_token_NoCache(tok, env, compat, resp) ==
    LET c == get_connection_credentials(env, compat, resp)
    IN  IF c.raised
        THEN [raised |-> TRUE, value |-> JNull, exc |-> AccessTokenExcept(c.exc),
              sent |-> c.sent, token |-> tok]
        ELSE LET x == ExtractAccessToken(c.value)
             IN  IF x.raised
                 THEN [raised |-> TRUE, value |-> JNull, exc |-> AccessTokenExcept(x.exc),
                       sent |-> c.sent, token |-> tok]
                 ELSE IF ~Truthy(x.value)
                 THEN [raised |-> TRUE, value |-> JNull, exc |-> NoTokenError,
                       sent |-> c.sent, token |-> x.value]
                 ELSE [raised |-> FALSE, value |-> x.value, exc |-> NoExc,
                       sent |-> c.sent, token |-> x.value]

\* get_access_token without the emptiness test of line 69: returns whatever it stored
get_access_token_NoEmptyCheck(tok, env, compat, resp) ==
    IF Truthy(tok)
    THEN [raised |-> FALSE, value |-> tok, exc |-> NoExc, sent |-> 0, token |-> tok]
    ELSE LET c == get_connection_credentials(env, compat, resp)
         IN  IF c.raised
             THEN [raised |-> TRUE, value |-> JNull, exc |-> AccessTokenExcept(c.exc),
                   sent |-> c.sent, token |-> tok]
             ELSE LET x == ExtractAccessToken(c.value)
                  IN  IF x.raised
                      THEN [raised |-> TRUE, value |-> JNull,
                            exc |-> AccessTokenExcept(x.exc),
                            sent |-> c.sent, token |-> tok]
                      ELSE [raised |-> FALSE, value |-> x.value, exc |-> NoExc,
                            sent |-> c.sent, token |-> x.value]

\* result: the outcome, `sent` broker requests, and `token`, the value of the
\* global ACCESS_TOKEN when the call ends
get_access_token(tok, env, compat, resp) ==
    IF Truthy(tok)
    THEN [raised |-> FALSE, value |-> tok, exc |-> NoExc, sent |-> 0, token |-> tok]
    ELSE LET c == get_connection_credentials(env, compat, resp)
         IN  IF c.raised
             THEN [raised |-> TRUE, value |-> JNull, exc |-> AccessTokenExcept(c.exc),
                   sent |-> c.sent, token |-> tok]
             ELSE LET x == ExtractAccessToken(c.value)
                  IN  IF x.raised
                      THEN [raised |-> TRUE, value |-> JNull,
                            exc |-> AccessTokenExcept(x.exc),
                            sent |-> c.sent, token |-> tok]
                      ELSE IF ~Truthy(x.value)
                      THEN [raised |-> TRUE, value |-> JNull, exc |-> NoTokenError,
                            sent |-> c.sent, token |-> x.value]
                      ELSE [raised |-> FALSE, value |-> x.value, exc |-> NoExc,
                            sent |-> c.sent, token |-> x.value]

(***************************************************************************)
(* Request Executor: make_request.                                         *)
(***************************************************************************)
BASE_URL == "https://api.timelyapp.com/1.1"

\* str.upper() on the method names the model draws
Upper(m) ==
    CASE m \in {"GET", "get"}       -> "GET"
      [] m \in {"POST", "post"}     -> "POST"
      [] m \in {"PUT", "put"}       -> "PUT"
      [] m \in {"DELETE", "delete"} -> "DELETE"
      [] m \in {"PATCH", "patch"}   -> "PATCH"
      [] m \in {"HEAD", "head"}     -> "HEAD"
      [] OTHER                      -> m

SupportedMethods == {"GET", "POST", "PUT", "DELETE"}

NoValue == [t |-> "absent"]
NoRequest ==
    [method |-> "none", url |-> <<>>, auth |-> JNull, json |-> NoValue, params |-> NoValue]

\* the requests.get/post/put/delete call of lines 97-104: what goes on the wire
BuildRequest(method, endpoint, data, params, access_token) ==
    [method |-> Upper(method),
     url    |-> <<BASE_URL>> \o endpoint,
     auth   |-> access_token,
     json   |-> IF Upper(method) \in {"POST", "PUT"} THEN data ELSE NoValue,
     params |-> IF Upper(method) = "GET" THEN params ELSE NoValue]

\* HandleResponse parsing every successful body, without the `if response.content` of line 123
HandleResponse_AlwaysParse(compat, resp) ==
    CASE resp.status = 401 -> Raised(ApiError(<<Lit("Unauthorized: Invalid access token")>>))
      [] resp.status = 403 -> Raised(ApiError(<<Lit("Forbidden: Insufficient permissions")>>))
      [] resp.status = 404 -> Raised(ApiError(<<Lit("Not Found: Resource does not exist")>>))
      [] resp.status = 422 ->
            LET error_data == IF HasContent(resp.body)
                              THEN ResponseJson(compat, resp.body)
                              ELSE Returned(JObj(EmptyMap))
            IN  IF error_data.raised THEN error_data
                ELSE IF ~HasGet(error_data.value) THEN Raised(AttributeError)
                ELSE Raised(ApiError(<<Lit("Validation Error: "),
                                       Val(DictGet(error_data.value, "errors",
                                                   JObj(EmptyMap)))>>))
      [] resp.status >= 400 /\ resp.status \notin {401, 403, 404, 422} ->
            Raised(ApiError(<<Lit("HTTP "), Num(resp.status), Lit(": "), Lit(resp.reason)>>))
      [] OTHER -> ResponseJson(compat, resp.body)

\* lines 108-123: the status mapping and the parse of a received response
HandleResponse(compat, resp) ==
    CASE resp.status = 401 -> Raised(ApiError(<<Lit("Unauthorized: Invalid access token")>>))
      [] resp.status = 403 -> Raised(ApiError(<<Lit("Forbidden: Insufficient permissions")>>))
      [] resp.status = 404 -> Raised(ApiError(<<Lit("Not Found: Resource does not exist")>>))
      [] resp.status = 422 ->
            LET error_data == IF HasContent(resp.body)
                              THEN ResponseJson(compat, resp.body)
                              ELSE Returned(JObj(EmptyMap))
            IN  IF error_data.raised THEN error_data
                ELSE IF ~HasGet(error_data.value) THEN Raised(AttributeError)
                ELSE Raised(ApiError(<<Lit("Validation Error: "),
                                       Val(DictGet(error_data.value, "errors",
                                                   JObj(EmptyMap)))>>))
      [] resp.status >= 400 /\ resp.status \notin {401, 403, 404, 422} ->
            Raised(ApiError(<<Lit("HTTP "), Num(resp.status), Lit(": "), Lit(resp.reason)>>))
      [] OTHER ->
            IF HasContent(resp.body) THEN ResponseJson(compat, resp.body)
            ELSE Returned(JObj(EmptyMap))

\* the except clauses of lines 125-128, tried in order
MakeRequestExcept(e) ==
    IF IsRequestException(e.cls) THEN ApiError(<<Lit("Request failed: ")>> \o e.msg)
    ELSE IF IsJSONDecodeError(e.cls) THEN ApiError(<<Lit("Invalid JSON response from API")>>)
    ELSE e

\* the try block sending the request a second time after a transport failure
Execute_RetryOnce(method, endpoint, data, params, access_token, compat, resp) ==
    IF Upper(method) \notin SupportedMethods
    THEN [raised |-> TRUE, value |-> JNull, apiSent |-> 0, request |-> NoRequest,
          exc |-> ApiError(<<Lit("Unsupported HTTP method: "), Lit(method)>>)]
    ELSE LET req == BuildRequest(method, endpoint, data, params, access_token)
             r   == IF resp.t = "transport" THEN Raised(resp.err)
                    ELSE HandleResponse(compat, resp)
         IN  [raised |-> r.raised, value |-> r.value, request |-> req,
              apiSent |-> IF resp.t = "transport" THEN 2 ELSE 1,
              exc |-> IF r.raised THEN MakeRequestExcept(r.exc) ELSE NoExc]

\* lines 96-128: the try block, given the token
Execute(method, endpoint, data, params, access_token, compat, resp) ==
    IF Upper(method) \notin SupportedMethods
    THEN [raised |-> TRUE, value |-> JNull, apiSent |-> 0, request |-> NoRequest,
          exc |-> ApiError(<<Lit("Unsupported HTTP method: "), Lit(method)>>)]
    ELSE LET req == BuildRequest(method, endpoint, data, params, access_token)
             r   == IF resp.t = "transport" THEN Raised(resp.err)
                    ELSE HandleResponse(compat, resp)
         IN  [raised |-> r.raised, value |-> r.value, apiSent |-> 1, request |-> req,
              exc |-> IF r.raised THEN MakeRequestExcept(r.exc) ELSE NoExc]

\* make_request going on with whatever the cache holds when get_access_token raises
make_request_IgnoreAuthFailure(method, endpoint, data, params, tok, env, compat, bresp, aresp) ==
    LET t == get_access_token(tok, env, compat, bresp)
        x == Execute(method, endpoint, data, params,
                     IF t.raised THEN t.token ELSE t.value, compat, aresp)
    IN  [raised |-> x.raised, value |-> x.value, exc |-> x.exc,
         brokerSent |-> t.sent, apiSent |-> x.apiSent, request |-> x.request,
         token |-> t.token]

\* make_request clearing the cached token when the target API answers 401
make_request_InvalidateOn401(method, endpoint, data, params, tok, env, compat, bresp, aresp) ==
    LET t == get_access_token(tok, env, compat, bresp)
    IN  IF t.raised
        THEN [raised |-> TRUE, value |-> JNull,
              exc |-> ApiError(<<Lit("Authentication failed: ")>> \o t.exc.msg),
              brokerSent |-> t.sent, apiSent |-> 0, request |-> NoRequest,
              token |-> t.token]
        ELSE LET x == Execute(method, endpoint, data, params, t.value, compat, aresp)
             IN  [raised |-> x.raised, value |-> x.value, exc |-> x.exc,
                  brokerSent |-> t.sent, apiSent |-> x.apiSent, request |-> x.request,
                  token |-> IF x.apiSent = 1 /\ aresp.status = 401 THEN JStr("")
                            ELSE t.token]

\* result: the outcome, the requests sent to the broker and to the target API,
\* the request put on the wire, and the value of ACCESS_TOKEN when the call ends
make_request(method, endpoint, data, params, tok, env, compat, bresp, aresp) ==
    LET t == get_access_token(tok, env, compat, bresp)
    IN  IF t.raised
        THEN [raised |-> TRUE, value |-> JNull,
              exc |-> ApiError(<<Lit("Authentication failed: ")>> \o t.exc.msg),
              brokerSent |-> t.sent, apiSent |-> 0, request |-> NoRequest,
              token |-> t.token]
        ELSE LET x == Execute(method, endpoint, data, params, t.value, compat, aresp)
             IN  [raised |-> x.raised, value |-> x.value, exc |-> x.exc,
                  brokerSent |-> t.sent, apiSent |-> x.apiSent, request |-> x.request,
                  token |-> t.token]

(***************************************************************************)
(* Data models (pydantic BaseModel classes) and record construction.       *)
(***************************************************************************)
Fld(name, type, required) == [name |-> name, type |-> type, required |-> required]

Timestamps == {Fld("created_at", "strint", FALSE), Fld("updated_at", "strint", FALSE)}

\* the declared fields of each model class
Fields(model) ==
    CASE model \in {"Account", "Team"} ->
            {Fld("id", "int", TRUE), Fld("name", "str", TRUE)} \cup Timestamps
      [] model = "Client" ->
            {Fld("id", "int", TRUE), Fld("name", "str", TRUE),
             Fld("active", "bool", FALSE)} \cup Timestamps
      [] model = "Project" ->
            {Fld("id", "int", TRUE), Fld("name", "str", TRUE),
             Fld("description", "str", FALSE), Fld("active", "bool", FALSE),
             Fld("client_id", "int", FALSE)} \cup Timestamps
      [] model = "User" ->
            {Fld("id", "int", TRUE), Fld("name", "str", TRUE), Fld("email", "str", TRUE),
             Fld("user_level", "str", FALSE), Fld("active", "bool", FALSE)} \cup Timestamps
      [] model = "Event" ->
            {Fld("id", "int", TRUE), Fld("uid", "str", FALSE),
             Fld("project_id", "int", TRUE), Fld("user_id", "int", TRUE),
             Fld("day", "str", TRUE), Fld("from_time", "str", FALSE),
             Fld("to_time", "str", FALSE), Fld("duration", "int", FALSE),
             Fld("note", "str", FALSE)} \cup Timestamps
      [] model = "Label" ->
            {Fld("id", "int", TRUE), Fld("name", "str", TRUE),
             Fld("color", "str", FALSE)} \cup Timestamps
      [] model = "Forecast" ->
            {Fld("id", "int", TRUE), Fld("project_id", "int", TRUE),
             Fld("user_id", "int", TRUE), Fld("day", "str", TRUE),
             Fld("duration", "int", TRUE), Fld("note", "str", FALSE)} \cup Timestamps
      [] model = "Webhook" ->
            {Fld("id", "int", TRUE), Fld("target_url", "str", TRUE),
             Fld("event", "str", TRUE)} \cup Timestamps

\* whether pydantic accepts v for a field; the model draws integers, plain
\* (non-numeric) strings, booleans and null only, for which the answer does not
\* depend on pydantic's coercion rules
Conforms(f, v) ==
    CASE v.t = "null"       -> ~f.required
      [] f.type = "int"     -> v.t = "int"
      [] f.type = "str"     -> v.t = "str"
      [] f.type = "bool"    -> v.t = "bool"
      [] f.type = "strint"  -> v.t \in {"str", "int"}

TypeError == Exc("TypeError", <<Lit("argument after ** must be a mapping")>>)
ValidationError == Exc("ValidationError", <<Lit("validation error")>>)

\* Model(**response): the record, or the TypeError / ValidationError Python raises
Construct(model, response) ==
    IF response.t # "obj" THEN Raised(TypeError)
    ELSE IF \E f \in Fields(model) :
               \/ f.required /\ f.name \notin DOMAIN response.o
               \/ f.name \in DOMAIN response.o /\ ~Conforms(f, response.o[f.name])
    THEN Raised(ValidationError)
    ELSE Returned(JObj([n \in {f.name : f \in Fields(model)} |->
                          IF n \in DOMAIN response.o THEN response.o[n] ELSE JNull]))

(***************************************************************************)
(* Tool functions: the update operations.                                  *)
(***************************************************************************)
\* str(n) for an int n >= 0
RECURSIVE IntStr(_)
IntStr(n) ==
    LET digit == <<"0", "1", "2", "3", "4", "5", "6", "7", "8", "9">>
    IN  IF n < 10 THEN digit[n + 1] ELSE IntStr(n \div 10) \o digit[(n % 10) + 1]

\* d[k] = v on a dict d
DictSet(d, k, v) == JObj([x \in DOMAIN d.o \cup {k} |-> IF x = k THEN v ELSE d.o[x]])

Arg(name, key) == [name |-> name, key |-> key]

UpdateOps == {"update_client", "update_project", "update_user", "update_event",
              "update_label", "update_forecast", "update_webhook"}

\* per update operation: the wrapper key of the body, the path segment, the model
\* class, the resource word of the error message, and the optional arguments in
\* the order the code tests them, each with the body key it is stored under
UpdateOp(op) ==
    CASE op = "update_client" ->
            [wrapper |-> "client", path |-> "/clients/", model |-> "Client",
             what |-> "client",
             args |-> <<Arg("name", "name"), Arg("active", "active")>>]
      [] op = "update_project" ->
            [wrapper |-> "project", path |-> "/projects/", model |-> "Project",
             what |-> "project",
             args |-> <<Arg("name", "name"), Arg("description", "description"),
                        Arg("active", "active")>>]
      [] op = "update_user" ->
            [wrapper |-> "user", path |-> "/users/", model |-> "User",
             what |-> "user",
             args |-> <<Arg("name", "name"), Arg("email", "email"),
                        Arg("user_level", "user_level")>>]
      [] op = "update_event" ->
            [wrapper |-> "event", path |-> "/events/", model |-> "Event",
             what |-> "event",
             args |-> <<Arg("day", "day"), Arg("from_time", "from"),
                        Arg("to_time", "to"), Arg("note", "note")>>]
      [] op = "update_label" ->
            [wrapper |-> "label", path |-> "/labels/", model |-> "Label",
             what |-> "label",
             args |-> <<Arg("name", "name"), Arg("color", "color")>>]
      [] op = "update_forecast" ->
            [wrapper |-> "forecast", path |-> "/forecasts/", model |-> "Forecast",
             what |-> "forecast",
             args |-> <<Arg("duration", "duration"), Arg("note", "note")>>]
      [] op = "update_webhook" ->
            [wrapper |-> "webhook", path |-> "/webhooks/", model |-> "Webhook",
             what |-> "webhook",
             args |-> <<Arg("target_url", "target_url"), Arg("event", "event")>>]

\* the test `x is not None` the update operations guard each assignment with,
\* written with the truthiness test `if x:` instead
UpdateIncludes_Truthy(v) == Truthy(v)

\* the test `x is not None` the update operations guard each assignment with
UpdateIncludes(v) == v # JNull

\* the chain of `if x is not None: data[wrapper][key] = x` statements, from the i-th on
RECURSIVE UpdateFields(_, _, _, _)
UpdateFields(argSeq, given, i, d) ==
    IF i > Len(argSeq) THEN d
    ELSE UpdateFields(argSeq, given, i + 1,
                      IF UpdateIncludes(given[argSeq[i].name])
                      THEN DictSet(d, argSeq[i].key, given[argSeq[i].name])
                      ELSE d)

\* data = {wrapper: {}} followed by the conditional assignments
UpdateBody(op, given) ==
    JObj(UpdateOp(op).wrapper :> UpdateFields(UpdateOp(op).args, given, 1, JObj(EmptyMap)))

\* f"/{account_id}/<resource>/{id}"
UpdateEndpoint(op, account_id, id) ==
    <<"/", IntStr(account_id), UpdateOp(op).path, IntStr(id)>>

\* an update tool: build the body, PUT it, construct the record; an ApiError is
\* re-raised as Exception with the operation's prefix, anything else escapes
UpdateTool(op, account_id, id, given, tok, env, compat, bresp, aresp) ==
    LET r == make_request("PUT", UpdateEndpoint(op, account_id, id),
                          UpdateBody(op, given), JNull, tok, env, compat, bresp, aresp)
        c == Construct(UpdateOp(op).model, r.value)
    IN  IF r.raised
        THEN [r EXCEPT !.exc =
                 IF r.exc.cls = "ApiError"
                 THEN Exc("Exception",
                          <<Lit("Failed to update "), Lit(UpdateOp(op).what), Lit(" "),
                            Lit(IntStr(id)), Lit(": ")>> \o r.exc.msg)
                 ELSE r.exc]
        ELSE [r EXCEPT !.raised = c.raised, !.value = c.value, !.exc = c.exc]

(***************************************************************************)
(* Tool functions: get, delete and timer operations.                       *)
(***************************************************************************)
\* except ApiError as e: raise Exception(f"<prefix>{str(e)}"); no other clause
ToolExcept(prefix, e) ==
    IF e.cls = "ApiError" THEN Exc("Exception", prefix \o e.msg) ELSE e

\* the outcome of a tool whose body is `return Model(**make_request(...))`
Shaped(model, prefix, r) ==
    LET c == Construct(model, r.value)
    IN  IF r.raised THEN [r EXCEPT !.exc = ToolExcept(prefix, r.exc)]
        ELSE [r EXCEPT !.raised = c.raised, !.value = c.value, !.exc = c.exc]

GetOps == {"get_account", "get_client", "get_project", "get_user", "get_current_user",
           "get_event", "get_team", "get_label", "get_webhook"}

\* per get operation: the path segment, the model class and the resource word
GetOp(op) ==
    CASE op = "get_account"      -> [path |-> "/accounts/", model |-> "Account", what |-> "account"]
      [] op = "get_client"       -> [path |-> "/clients/", model |-> "Client", what |-> "client"]
      [] op = "get_project"      -> [path |-> "/projects/", model |-> "Project", what |-> "project"]
      [] op = "get_user"         -> [path |-> "/users/", model |-> "User", what |-> "user"]
      [] op = "get_current_user" -> [path |-> "/users/current", model |-> "User", what |-> "current user"]
      [] op = "get_event"        -> [path |-> "/events/", model |-> "Event", what |-> "event"]
      [] op = "get_team"         -> [path |-> "/teams/", model |-> "Team", what |-> "team"]
      [] op = "get_label"        -> [path |-> "/labels/", model |-> "Label", what |-> "label"]
      [] op = "get_webhook"      -> [path |-> "/webhooks/", model |-> "Webhook", what |-> "webhook"]

\* f"/accounts/{account_id}", f"/{account_id}/users/current", f"/{account_id}/<resource>/{id}"
GetEndpoint(op, account_id, id) ==
    CASE op = "get_account"      -> <<GetOp(op).path, IntStr(account_id)>>
      [] op = "get_current_user" -> <<"/", IntStr(account_id), GetOp(op).path>>
      [] OTHER -> <<"/", IntStr(account_id), GetOp(op).path, IntStr(id)>>

\* f"Failed to get <resource> {id}: "; get_current_user names no identifier
GetPrefix(op, account_id, id) ==
    CASE op = "get_account" ->
            <<Lit("Failed to "), Lit("get account "), Lit(IntStr(account_id)), Lit(": ")>>
      [] op = "get_current_user" ->
            <<Lit("Failed to "), Lit("get current user"), Lit(": ")>>
      [] OTHER ->
            <<Lit("Failed to "), Lit("get " \o GetOp(op).what \o " "), Lit(IntStr(id)),
              Lit(": ")>>

\* a get tool: GET the resource and construct the record
GetTool(op, account_id, id, tok, env, compat, bresp, aresp) ==
    Shaped(GetOp(op).model, GetPrefix(op, account_id, id),
           make_request("GET", GetEndpoint(op, account_id, id), JNull, JNull,
                        tok, env, compat, bresp, aresp))

DeleteOps == {"delete_project", "delete_user", "delete_event", "delete_team",
              "delete_label", "delete_forecast", "delete_webhook"}

\* per delete operation: the path segment, the resource word of the error message
\* and the capitalised word of the result
DeleteOp(op) ==
    CASE op = "delete_project"  -> [path |-> "/projects/", what |-> "project", What |-> "Project"]
      [] op = "delete_user"     -> [path |-> "/users/", what |-> "user", What |-> "User"]
      [] op = "delete_event"    -> [path |-> "/events/", what |-> "event", What |-> "Event"]
      [] op = "delete_team"     -> [path |-> "/teams/", what |-> "team", What |-> "Team"]
      [] op = "delete_label"    -> [path |-> "/labels/", what |-> "label", What |-> "Label"]
      [] op = "delete_forecast" -> [path |-> "/forecasts/", what |-> "forecast", What |-> "Forecast"]
      [] op = "delete_webhook"  -> [path |-> "/webhooks/", what |-> "webhook", What |-> "Webhook"]

\* f"Failed to delete <resource> {id}: "
DeletePrefix(op, id) ==
    <<Lit("Failed to "), Lit("delete " \o DeleteOp(op).what \o " "), Lit(IntStr(id)),
      Lit(": ")>>

\* {"result": f"<Resource> {id} deleted successfully"}
DeleteResult(op, id) ==
    JObj([result |-> JStr(DeleteOp(op).What \o " " \o IntStr(id) \o " deleted successfully")])

\* a delete tool: DELETE the resource, ignore the answer's body, report success
DeleteTool(op, account_id, id, tok, env, compat, bresp, aresp) ==
    LET r == make_request("DELETE", <<"/", IntStr(account_id), DeleteOp(op).path, IntStr(id)>>,
                          JNull, JNull, tok, env, compat, bresp, aresp)
    IN  IF r.raised THEN [r EXCEPT !.exc = ToolExcept(DeletePrefix(op, id), r.exc)]
        ELSE [r EXCEPT !.value = DeleteResult(op, id)]

TimerOps == {"start_timer", "stop_timer"}

\* the last path segment and the verb of each timer operation
TimerVerb(op) == IF op = "start_timer" THEN "start" ELSE "stop"

\* f"Failed to <start|stop> timer for event {event_id}: "
TimerPrefix(op, id) ==
    <<Lit("Failed to "), Lit(TimerVerb(op) \o " timer for event "), Lit(IntStr(id)),
      Lit(": ")>>

\* a timer tool: PUT without a body to the event's start or stop path
TimerTool(op, account_id, id, tok, env, compat, bresp, aresp) ==
    Shaped("Event", TimerPrefix(op, id),
           make_request("PUT", <<"/", IntStr(account_id), "/events/", IntStr(id), "/",
                                 TimerVerb(op)>>,
                        JNull, JNull, tok, env, compat, bresp, aresp))

(***************************************************************************)
(* Tool functions: create operations.                                      *)
(***************************************************************************)
CreateOps == {"create_client", "create_project", "create_user", "create_event",
              "create_team", "create_label", "create_forecast", "create_webhook"}

\* per create operation: the wrapper key of the body, the path segment, the model
\* class, the resource word, the arguments the body literal always holds and the
\* arguments added under an `if`, each with the body key it is stored under
CreateOp(op) ==
    CASE op = "create_client" ->
            [wrapper |-> "client", path |-> "/clients", model |-> "Client",
             required |-> <<Arg("name", "name"), Arg("active", "active")>>,
             optional |-> <<>>]
      [] op = "create_project" ->
            [wrapper |-> "project", path |-> "/projects", model |-> "Project",
             required |-> <<Arg("name", "name"), Arg("active", "active")>>,
             optional |-> <<Arg("description", "description"),
                            Arg("client_id", "client_id")>>]
      [] op = "create_user" ->
            [wrapper |-> "user", path |-> "/users", model |-> "User",
             required |-> <<Arg("name", "name"), Arg("email", "email"),
                            Arg("user_level", "user_level")>>,
             optional |-> <<>>]
      [] op = "create_event" ->
            [wrapper |-> "event", path |-> "/events", model |-> "Event",
             required |-> <<Arg("day", "day"), Arg("from_time", "from"),
                            Arg("to_time", "to")>>,
             optional |-> <<Arg("note", "note"), Arg("project_id", "project_id"),
                            Arg("user_id", "user_id")>>]
      [] op = "create_team" ->
            [wrapper |-> "team", path |-> "/teams", model |-> "Team",
             required |-> <<Arg("name", "name")>>,
             optional |-> <<>>]
      [] op = "create_label" ->
            [wrapper |-> "label", path |-> "/labels", model |-> "Label",
             required |-> <<Arg("name", "name")>>,
             optional |-> <<Arg("color", "color")>>]
      [] op = "create_forecast" ->
            [wrapper |-> "forecast", path |-> "/forecasts", model |-> "Forecast",
             required |-> <<Arg("project_id", "project_id"), Arg("user_id", "user_id"),
                            Arg("day", "day"), Arg("duration", "duration")>>,
             optional |-> <<Arg("note", "note")>>]
      [] op = "create_webhook" ->
            [wrapper |-> "webhook", path |-> "/webhooks", model |-> "Webhook",
             required |-> <<Arg("target_url", "target_url"), Arg("event", "event")>>,
             optional |-> <<>>]

\* the dict literal {key: argument, ...}, from the i-th entry on
RECURSIVE LiteralFields(_, _, _, _)
LiteralFields(argSeq, given, i, d) ==
    IF i > Len(argSeq) THEN d
    ELSE LiteralFields(argSeq, given, i + 1,
                       DictSet(d, argSeq[i].key, given[argSeq[i].name]))

\* the chain of `if x: d[key] = x` statements, from the i-th on
RECURSIVE TruthyFields(_, _, _, _)
TruthyFields(argSeq, given, i, d) ==
    IF i > Len(argSeq) THEN d
    ELSE TruthyFields(argSeq, given, i + 1,
                      IF Truthy(given[argSeq[i].name])
                      THEN DictSet(d, argSeq[i].key, given[argSeq[i].name])
                      ELSE d)

\* data = {wrapper: {...}} followed by the conditional assignments
CreateBody(op, given) ==
    JObj(CreateOp(op).wrapper :>
            TruthyFields(CreateOp(op).optional, given, 1,
                         LiteralFields(CreateOp(op).required, given, 1, JObj(EmptyMap))))

\* f"/{account_id}/<resource>"; create_event switches to the project's path
\* under `if project_id:`
CreateEndpoint(op, account_id, given) ==
    IF op = "create_event" /\ Truthy(given["project_id"])
    THEN <<"/", IntStr(account_id), "/projects/", IntStr(given["project_id"].n), "/events">>
    ELSE <<"/", IntStr(account_id), CreateOp(op).path>>

\* f"Failed to create <resource>: "
CreatePrefix(op) ==
    <<Lit("Failed to "), Lit("create " \o CreateOp(op).wrapper), Lit(": ")>>

\* a create tool: build the body, POST it, construct the record
CreateTool(op, account_id, given, tok, env, compat, bresp, aresp) ==
    Shaped(CreateOp(op).model, CreatePrefix(op),
           make_request("POST", CreateEndpoint(op, account_id, given),
                        CreateBody(op, given), JNull, tok, env, compat, bresp, aresp))

(***************************************************************************)
(* Tool functions: list operations.                                        *)
(***************************************************************************)
NotIterable == Exc("TypeError", <<Lit("object is not iterable")>>)

\* the keys of a dict as a sequence of strings
RECURSIVE Keys(_)
Keys(ks) ==
    IF ks = {} THEN <<>>
    ELSE LET k == CHOOSE x \in ks : TRUE IN <<JStr(k)>> \o Keys(ks \ {k})

\* the items `for x in v` visits: the elements of a list, the keys of a dict;
\* None, numbers and booleans are not iterable
Iterate(v) ==
    CASE v.t = "arr" -> Returned(v.a)
      [] v.t = "obj" -> Returned(Keys(DOMAIN v.o))
      [] v.t \in {"null", "int", "bool"} -> Raised(NotIterable)

\* [Model(**x) for x in items], from the i-th item on: the records, or the
\* exception of the first item that cannot be constructed
RECURSIVE ConstructAll(_, _, _, _)
ConstructAll(model, items, i, acc) ==
    IF i > Len(items) THEN Returned(JArr(acc))
    ELSE LET c == Construct(model, items[i])
         IN  IF c.raised THEN c
             ELSE ConstructAll(model, items, i + 1, Append(acc, c.value))

ListOps == {"list_clients", "list_projects", "list_users", "list_events",
            "list_teams", "list_labels", "list_forecasts", "list_webhooks"}

\* per list operation: the resource word (path segment, key of the result and
\* word of the error message), the model class and the optional filters in the
\* order the code tests them
ListOp(op) ==
    CASE op = "list_clients" ->
            [key |-> "clients", model |-> "Client",
             params |-> <<Arg("limit", "limit"), Arg("offset", "offset")>>]
      [] op = "list_projects" ->
            [key |-> "projects", model |-> "Project",
             params |-> <<Arg("limit", "limit"), Arg("state", "state")>>]
      [] op = "list_users" ->
            [key |-> "users", model |-> "User", params |-> <<>>]
      [] op = "list_events" ->
            [key |-> "events", model |-> "Event",
             params |-> <<Arg("since", "since"), Arg("upto", "upto"),
                          Arg("user_id", "user_id"), Arg("project_id", "project_id")>>]
      [] op = "list_teams" ->
            [key |-> "teams", model |-> "Team", params |-> <<>>]
      [] op = "list_labels" ->
            [key |-> "labels", model |-> "Label", params |-> <<>>]
      [] op = "list_forecasts" ->
            [key |-> "forecasts", model |-> "Forecast",
             params |-> <<Arg("since", "since"), Arg("upto", "upto")>>]
      [] op = "list_webhooks" ->
            [key |-> "webhooks", model |-> "Webhook", params |-> <<>>]

\* params = {} followed by the conditional assignments; the operations without
\* filters pass no params at all
ListParams(op, given) ==
    IF ListOp(op).params = <<>> THEN JNull
    ELSE TruthyFields(ListOp(op).params, given, 1, JObj(EmptyMap))

\* f"Failed to list <resources>: "
ListPrefix(key) == <<Lit("Failed to "), Lit("list " \o key), Lit(": ")>>

\* the records of a collection: [Model(**x) for x in response]
Records(model, response) ==
    IF Iterate(response).raised THEN Iterate(response)
    ELSE ConstructAll(model, Iterate(response).value, 1, <<>>)

\* the outcome of a tool that wraps the records c made of the answer r under key
Collected(key, r, c) ==
    IF r.raised THEN [r EXCEPT !.exc = ToolExcept(ListPrefix(key), r.exc)]
    ELSE IF c.raised THEN [r EXCEPT !.raised = TRUE, !.value = JNull, !.exc = c.exc]
    ELSE [r EXCEPT !.value = JObj(key :> c.value)]

\* the outcome of a list tool given the outcome r of its make_request
ListShaped(op, r) == Collected(ListOp(op).key, r, Records(ListOp(op).model, r.value))

\* a list tool: GET the collection, construct a record from each item of the
\* answer, wrap the records under the resource's key
ListTool(op, account_id, given, tok, env, compat, bresp, aresp) ==
    ListShaped(op, make_request("GET", <<"/", IntStr(account_id), "/", ListOp(op).key>>,
                                JNull, ListParams(op, given), tok, env, compat,
                                bresp, aresp))

\* Account.model_validate(x): as Account(**x) for a dict, a ValidationError otherwise
ModelValidate(model, v) ==
    IF v.t # "obj" THEN Raised(ValidationError) ELSE Construct(model, v)

\* lines 289-300: the account validated from an item, or when that raises the
\* account built from the item's id (0 when absent), name ("Unknown" when
\* absent) and timestamps
AccountFrom(account_data) ==
    LET v == ModelValidate("Account", account_data)
    IN  IF ~v.raised THEN v
        ELSE IF ~HasGet(account_data) THEN Raised(AttributeError)
        ELSE Construct("Account",
                 JObj([id         |-> DictGet(account_data, "id", JInt(0)),
                       name       |-> DictGet(account_data, "name", JStr("Unknown")),
                       created_at |-> DictGet(account_data, "created_at", JNull),
                       updated_at |-> DictGet(account_data, "updated_at", JNull)]))

\* the loop of lines 287-300, from the i-th item on
RECURSIVE AccountsFrom(_, _, _)
AccountsFrom(items, i, acc) ==
    IF i > Len(items) THEN Returned(JArr(acc))
    ELSE LET c == AccountFrom(items[i])
         IN  IF c.raised THEN c ELSE AccountsFrom(items, i + 1, Append(acc, c.value))

\* lines 281-285: a list is taken as it is; of a dict the value under "accounts",
\* or the dict itself as the only item when it has an "id", or nothing
AccountsData(response) ==
    IF response.t = "arr" THEN Returned(response)
    ELSE IF ~HasGet(response) THEN Raised(AttributeError)
    ELSE Returned(DictGet(response, "accounts",
                          JArr(IF "id" \in DOMAIN response.o THEN <<response>> ELSE <<>>)))

\* lines 281-302: the accounts made of the answer
Accounts(response) ==
    LET d  == AccountsData(response)
        it == IF d.raised THEN d ELSE Iterate(d.value)
    IN  IF it.raised THEN it ELSE AccountsFrom(it.value, 1, <<>>)

\* the outcome of list_accounts given the outcome r of its make_request
AccountsShaped(r) == Collected("accounts", r, Accounts(r.value))

\* list_accounts
ListAccounts(tok, env, compat, bresp, aresp) ==
    AccountsShaped(make_request("GET", <<"/accounts">>, JNull, JNull, tok, env, compat,
                                bresp, aresp))

(***************************************************************************)
(* The environment: settings, broker answers, target-API answers.          *)
(***************************************************************************)
AllSet == [k \in EnvNames |-> JStr("set")]

\* os.environ.get gives None for an unset name and "" for one set to nothing
EnvChoices ==
    {AllSet}
    \cup {[AllSet EXCEPT ![k] = JNull] : k \in EnvNames}
    \cup {[AllSet EXCEPT !["NANGO_BASE_URL"] = JStr("")]}

Tokens == {"tokA", "tokB"}

TokenPayload(tok) == JObj([credentials |-> JObj([access_token |-> JStr(tok)])])

BrokerPayloads ==
    {TokenPayload(tok) : tok \in Tokens}
    \cup {JObj([credentials |-> JObj([access_token |-> JStr("")])]),
          JObj([credentials |-> JObj(EmptyMap)]),
          JObj(EmptyMap),
          JObj([credentials |-> JNull]),
          JArr(<<>>)}

\* a 2xx answer of the documented shape {"credentials": {"access_token": "<token>"}}
IsTokenResponse(resp) ==
    resp \in {HttpResponse(200, "OK", JsonBody(TokenPayload(tok))) : tok \in Tokens}

BrokerResponses ==
    {HttpResponse(200, "OK", JsonBody(p)) : p \in BrokerPayloads}
    \cup {HttpResponse(200, "OK", GarbageBody),
          HttpResponse(500, "Internal Server Error", EmptyBody),
          TransportError("ConnectionError", "connection refused")}

ApiBodies ==
    {EmptyBody,
     GarbageBody,
     JsonBody(JObj(EmptyMap)),
     JsonBody(JObj([errors |-> JObj([name |-> JStr("can't be blank")])])),
     JsonBody(JObj([id |-> JInt(1), name |-> JStr("Acme")])),
     JsonBody(JArr(<<>>))}

Reason(status) ==
    CASE status = 200 -> "OK"
      [] status = 204 -> "No Content"
      [] status = 401 -> "Unauthorized"
      [] status = 403 -> "Forbidden"
      [] status = 404 -> "Not Found"
      [] status = 422 -> "Unprocessable Entity"
      [] status = 500 -> "Internal Server Error"
      [] OTHER        -> "Unknown"

ApiStatuses == {200, 204, 401, 403, 404, 422, 500}

ApiResponses ==
    {HttpResponse(st, Reason(st), b) : st \in ApiStatuses, b \in ApiBodies}
    \cup {TransportError("Timeout", "read timed out"),
          TransportError("ConnectionError", "name resolution failed")}

Methods == {"GET", "POST", "PUT", "DELETE", "get", "PATCH"}

SampleData == JObj([client |-> JObj([name |-> JStr("Acme")])])
SampleParams == JObj([limit |-> JInt(5)])

\* the (data, params) pairs a caller of make_request passes
Payloads == {<<JNull, JNull>>, <<SampleData, SampleParams>>}

(***************************************************************************)
(* State.                                                                  *)
(***************************************************************************)
Threads == 1..MaxThreads

NoCall ==
    [op |-> "none", method |-> "", args |-> EmptyMap, tokBefore |-> JStr(""),
     tokenRaised |-> FALSE,
     raised |-> FALSE, value |-> JNull, exc |-> NoExc, brokerSent |-> 0, apiSent |-> 0,
     request |-> NoRequest, bresp |-> NoResponse, aresp |-> NoResponse]

Init ==
    /\ environ \in EnvChoices
    /\ requestsCompat \in {"modern", "legacy"}
    /\ ACCESS_TOKEN = JStr("")
    /\ brokerCalls = 0
    /\ last = NoCall
    /\ brokerBad = FALSE
    /\ everValid = FALSE
    /\ pc = [p \in Threads |-> "idle"]
    /\ credentials = [p \in Threads |-> JNull]
    /\ retval = [p \in Threads |-> Returned(JNull)]

\* the bookkeeping every completed sequential call does
Complete(obs, token, sent, bresp) ==
    /\ brokerCalls + sent <= MaxFetches
    /\ ACCESS_TOKEN' = token
    /\ brokerCalls' = brokerCalls + sent
    /\ last' = obs
    /\ brokerBad' = (brokerBad \/ (sent = 1 /\ ~IsTokenResponse(bresp)))
    /\ everValid' = (everValid \/ Truthy(token))
    /\ UNCHANGED <<environ, requestsCompat, pc, credentials, retval>>

\* the answer recorded for a request that was never sent
Unasked(resp, sent) == IF sent >= 1 THEN resp ELSE NoResponse

\* a call of get_access_token()
GetAccessTokenCall ==
    \E bresp \in BrokerResponses :
      \E r \in {get_access_token(ACCESS_TOKEN, environ, requestsCompat, bresp)} :
        /\ r.sent = 0 => bresp = HttpResponse(200, "OK", GarbageBody)
        /\ Complete([NoCall EXCEPT !.op = "get_access_token",
                                   !.tokBefore = ACCESS_TOKEN,
                                   !.tokenRaised = r.raised,
                                   !.raised = r.raised,
                                   !.value = r.value,
                                   !.exc = r.exc,
                                   !.brokerSent = r.sent,
                                   !.bresp = Unasked(bresp, r.sent)],
                    r.token, r.sent, bresp)

\* a call of make_request(method, endpoint, data, params)
MakeRequestCall ==
    \E method \in Methods, pl \in Payloads, bresp \in BrokerResponses :
      \E t \in {get_access_token(ACCESS_TOKEN, environ, requestsCompat, bresp)} :
        /\ t.sent = 0 => bresp = HttpResponse(200, "OK", GarbageBody)
        /\ \E aresp \in ApiResponses :
             \E r \in {make_request(method, <<"/accounts">>, pl[1], pl[2], ACCESS_TOKEN,
                                    environ, requestsCompat, bresp, aresp)} :
               /\ r.apiSent = 0 => aresp = TransportError("Timeout", "read timed out")
               /\ Complete([op |-> "make_request", method |-> method, args |-> EmptyMap,
                            tokBefore |-> ACCESS_TOKEN, tokenRaised |-> t.raised,
                            raised |-> r.raised, value |-> r.value, exc |-> r.exc,
                            brokerSent |-> r.brokerSent, apiSent |-> r.apiSent,
                            request |-> r.request,
                            bresp |-> Unasked(bresp, r.brokerSent),
                            aresp |-> Unasked(aresp, r.apiSent)],
                           r.token, r.brokerSent, bresp)

Next == GetAccessTokenCall \/ MakeRequestCall

Spec == Init /\ [][Next]_vars

(***************************************************************************)
(* Tool calls.                                                             *)
(***************************************************************************)
\* what a caller passes for an optional argument: None (also when omitted), a
\* falsy value or a truthy value of the argument's type
Levels == {"none", "falsy", "truthy"}

ArgValue(name, level) ==
    CASE level = "none"    -> JNull
      [] name = "active"   -> JBool(level = "truthy")
      [] name = "duration" -> JInt(IF level = "truthy" THEN 30 ELSE 0)
      [] name \in {"limit", "offset", "client_id", "project_id", "user_id"} ->
            JInt(IF level = "truthy" THEN 5 ELSE 0)
      [] OTHER             -> JStr(IF level = "truthy" THEN "x" ELSE "")

ArgNames(op) == {UpdateOp(op).args[i].name : i \in 1..Len(UpdateOp(op).args)}

\* a record the target API may answer with that satisfies the model class
SampleRecord(model) ==
    JObj([n \in {f.name : f \in {g \in Fields(model) : g.required}} |->
            IF (CHOOSE f \in Fields(model) : f.name = n).type = "int"
            THEN JInt(7) ELSE JStr("v")])

\* the answers the tool calls are run against: a valid record, an object lacking
\* required fields, and an error status
ToolApiResponses(model) ==
    {HttpResponse(200, "OK", JsonBody(SampleRecord(model))),
     HttpResponse(200, "OK", JsonBody(JObj([id |-> JInt(7)]))),
     HttpResponse(404, "Not Found", EmptyBody)}

\* the broker answers the tool calls are run against: a token, and a failure
ToolBrokerResponses ==
    {HttpResponse(200, "OK", JsonBody(TokenPayload("tokA"))),
     HttpResponse(500, "Internal Server Error", EmptyBody)}

AccountIds == {1}
ResourceIds == {12}

\* a call of one of the update tools
UpdateToolCall ==
    \E op \in UpdateOps, account_id \in AccountIds, id \in ResourceIds,
       bresp \in ToolBrokerResponses :
      \E t \in {get_access_token(ACCESS_TOKEN, environ, requestsCompat, bresp)} :
        /\ t.sent = 0 => bresp = HttpResponse(500, "Internal Server Error", EmptyBody)
        /\ \E lv \in [ArgNames(op) -> Levels],
              aresp \in ToolApiResponses(UpdateOp(op).model) :
            \E given \in {[n \in ArgNames(op) |-> ArgValue(n, lv[n])]} :
             /\ \E r \in {UpdateTool(op, account_id, id, given, ACCESS_TOKEN, environ,
                                     requestsCompat, bresp, aresp)} :
                  /\ r.apiSent = 0 => aresp = HttpResponse(404, "Not Found", EmptyBody)
                  /\ Complete([op |-> op, method |-> "PUT", args |-> given,
                               tokBefore |-> ACCESS_TOKEN, tokenRaised |-> t.raised,
                               raised |-> r.raised, value |-> r.value, exc |-> r.exc,
                               brokerSent |-> r.brokerSent, apiSent |-> r.apiSent,
                               request |-> r.request,
                               bresp |-> Unasked(bresp, r.brokerSent),
                               aresp |-> Unasked(aresp, r.apiSent)],
                              r.token, r.brokerSent, bresp)

NextTools == UpdateToolCall

\* the tool calls are run with the settings complete or with the secret unset,
\* and with a current requests library
InitTools ==
    /\ Init
    /\ environ \in {AllSet, [AllSet EXCEPT !["NANGO_SECRET_KEY"] = JNull]}
    /\ requestsCompat = "modern"

SpecTools == InitTools /\ [][NextTools]_vars

(***************************************************************************)
(* Calls of the get, create, delete, timer and list tools.                 *)
(***************************************************************************)
NotFound == HttpResponse(404, "Not Found", EmptyBody)
NoContent == HttpResponse(204, "No Content", EmptyBody)

\* the answers the single-record tools are run against: those of the update
\* tools and a success without a body
SingleApiResponses(model) == ToolApiResponses(model) \cup {NoContent}

\* a second record satisfying the model class
OtherRecord(model) == DictSet(SampleRecord(model), "id", JInt(8))

\* the answers the list tools are run against: an array of records, an array
\* holding an item without its required fields, the array under the resource's
\* key, a single record, an object without an id, and an error status
ListApiResponses(model, key) ==
    {HttpResponse(200, "OK", JsonBody(JArr(<<OtherRecord(model), SampleRecord(model)>>))),
     HttpResponse(200, "OK", JsonBody(JArr(<<SampleRecord(model), JObj([id |-> JInt(7)])>>))),
     HttpResponse(200, "OK", JsonBody(JArr(<<JObj([name |-> JStr("v")])>>))),
     HttpResponse(200, "OK", JsonBody(JObj(key :> JArr(<<OtherRecord(model), SampleRecord(model)>>)))),
     HttpResponse(200, "OK", JsonBody(SampleRecord(model))),
     HttpResponse(200, "OK", JsonBody(JObj([total |-> JInt(0)]))),
     NotFound}

\* the names of a sequence of arguments
Names(argSeq) == {argSeq[i].name : i \in 1..Len(argSeq)}

\* the arguments of a call: the literal ones with a value, the optional ones at
\* the chosen levels
Given(literal, optional, lv) ==
    [n \in Names(literal) \cup Names(optional) |->
        ArgValue(n, IF n \in Names(optional) THEN lv[n] ELSE "truthy")]

\* the identifiers of a call, as they are recorded with its other arguments
Ids(account_id, id) == [account_id |-> JInt(account_id), id |-> JInt(id)]

\* the record of a completed tool call r made with broker answer bresp and
\* target-API answer aresp; t is the outcome of its get_access_token
ToolDone(op, method, args, t, r, bresp, aresp) ==
    /\ r.apiSent = 0 => aresp = NotFound
    /\ Complete([op |-> op, method |-> method, args |-> args,
                 tokBefore |-> ACCESS_TOKEN, tokenRaised |-> t.raised,
                 raised |-> r.raised, value |-> r.value, exc |-> r.exc,
                 brokerSent |-> r.brokerSent, apiSent |-> r.apiSent,
                 request |-> r.request,
                 bresp |-> Unasked(bresp, r.brokerSent),
                 aresp |-> Unasked(aresp, r.apiSent)],
                r.token, r.brokerSent, bresp)

\* the broker answer of a call and the outcome of its get_access_token
TokenDraws ==
    {d \in {<<b, get_access_token(ACCESS_TOKEN, environ, requestsCompat, b)>> :
               b \in ToolBrokerResponses} :
        d[2].sent = 0 => d[1] = HttpResponse(500, "Internal Server Error", EmptyBody)}

GetToolCall ==
    \E op \in GetOps, account_id \in AccountIds, id \in ResourceIds, bt \in TokenDraws :
     \E aresp \in SingleApiResponses(GetOp(op).model) :
      \E r \in {GetTool(op, account_id, id, ACCESS_TOKEN, environ, requestsCompat,
                        bt[1], aresp)} :
        ToolDone(op, "GET", Ids(account_id, id), bt[2], r, bt[1], aresp)

DeleteToolCall ==
    \E op \in DeleteOps, account_id \in AccountIds, id \in ResourceIds, bt \in TokenDraws,
       aresp \in SingleApiResponses("Team") :
      \E r \in {DeleteTool(op, account_id, id, ACCESS_TOKEN, environ, requestsCompat,
                           bt[1], aresp)} :
        ToolDone(op, "DELETE", Ids(account_id, id), bt[2], r, bt[1], aresp)

TimerToolCall ==
    \E op \in TimerOps, account_id \in AccountIds, id \in ResourceIds, bt \in TokenDraws,
       aresp \in SingleApiResponses("Event") :
      \E r \in {TimerTool(op, account_id, id, ACCESS_TOKEN, environ, requestsCompat,
                          bt[1], aresp)} :
        ToolDone(op, "PUT", Ids(account_id, id), bt[2], r, bt[1], aresp)

CreateToolCall ==
    \E op \in CreateOps, account_id \in AccountIds, bt \in TokenDraws :
     \E aresp \in SingleApiResponses(CreateOp(op).model) :
      \E lv \in [Names(CreateOp(op).optional) -> Levels] :
        \E given \in {Given(CreateOp(op).required, CreateOp(op).optional, lv)} :
          \E r \in {CreateTool(op, account_id, given, ACCESS_TOKEN, environ,
                               requestsCompat, bt[1], aresp)} :
            ToolDone(op, "POST", ("account_id" :> JInt(account_id)) @@ given,
                     bt[2], r, bt[1], aresp)

ListToolCall ==
    \E op \in ListOps, account_id \in AccountIds, bt \in TokenDraws :
     \E aresp \in ListApiResponses(ListOp(op).model, ListOp(op).key) :
      \E lv \in [Names(ListOp(op).params) -> Levels] :
        \E given \in {Given(<<>>, ListOp(op).params, lv)} :
          \E r \in {ListTool(op, account_id, given, ACCESS_TOKEN, environ,
                             requestsCompat, bt[1], aresp)} :
            ToolDone(op, "GET", ("account_id" :> JInt(account_id)) @@ given,
                     bt[2], r, bt[1], aresp)

ListAccountsCall ==
    \E bt \in TokenDraws, aresp \in ListApiResponses("Account", "accounts") :
      \E r \in {ListAccounts(ACCESS_TOKEN, environ, requestsCompat, bt[1], aresp)} :
        ToolDone("list_accounts", "GET", EmptyMap, bt[2], r, bt[1], aresp)

\* the tools that return one record or a confirmation
NextSingle == GetToolCall \/ CreateToolCall \/ DeleteToolCall \/ TimerToolCall

SpecSingle == InitTools /\ [][NextSingle]_vars

\* the tools that build filters or a body from optional arguments, and the
\* tools that return a collection
NextLists == ListAccountsCall \/ ListToolCall \/ CreateToolCall

SpecLists == InitTools /\ [][NextLists]_vars

(***************************************************************************)
(* Interleaved get_access_token calls: one call per thread, one step per   *)
(* statement that reads or writes the global ACCESS_TOKEN.                 *)
(***************************************************************************)
Finish(p, outcome) ==
    /\ retval' = [retval EXCEPT ![p] = outcome]
    /\ pc' = [pc EXCEPT ![p] = "done"]

\* line 62: `if ACCESS_TOKEN:`
Check ==
    \E p \in Threads :
        /\ pc[p] = "idle"
        /\ pc' = [pc EXCEPT ![p] = IF Truthy(ACCESS_TOKEN) THEN "cached" ELSE "fetch"]
        /\ UNCHANGED <<environ, requestsCompat, ACCESS_TOKEN, brokerCalls, last, brokerBad,
                       everValid, credentials, retval>>

\* line 63: `return ACCESS_TOKEN`
ReturnCached ==
    \E p \in Threads :
        /\ pc[p] = "cached"
        /\ Finish(p, Returned(ACCESS_TOKEN))
        /\ UNCHANGED <<environ, requestsCompat, ACCESS_TOKEN, brokerCalls, last, brokerBad,
                       everValid, credentials>>

\* line 67: `credentials = get_connection_credentials()`, with the except clauses
Fetch ==
    \E p \in Threads, bresp \in BrokerResponses :
      \E c \in {get_connection_credentials(environ, requestsCompat, bresp)} :
        /\ pc[p] = "fetch"
        /\ c.sent = 0 => bresp = HttpResponse(200, "OK", GarbageBody)
        /\ brokerCalls' = brokerCalls + c.sent
        /\ brokerBad' = (brokerBad \/ (c.sent = 1 /\ ~IsTokenResponse(bresp)))
        /\ IF c.raised
           THEN /\ Finish(p, Raised(AccessTokenExcept(c.exc)))
                /\ UNCHANGED credentials
           ELSE /\ credentials' = [credentials EXCEPT ![p] = c.value]
                /\ pc' = [pc EXCEPT ![p] = "store"]
                /\ UNCHANGED retval
        /\ UNCHANGED <<environ, requestsCompat, ACCESS_TOKEN, last, everValid>>

\* line 68: `ACCESS_TOKEN = credentials.get("credentials", {}).get("access_token")`
Store ==
    \E p \in Threads :
      \E x \in {ExtractAccessToken(credentials[p])} :
        /\ pc[p] = "store"
        /\ IF x.raised
           THEN /\ Finish(p, Raised(AccessTokenExcept(x.exc)))
                /\ UNCHANGED <<ACCESS_TOKEN, everValid>>
           ELSE /\ ACCESS_TOKEN' = x.value
                /\ everValid' = (everValid \/ Truthy(x.value))
                /\ pc' = [pc EXCEPT ![p] = "test"]
                /\ UNCHANGED retval
        /\ UNCHANGED <<environ, requestsCompat, brokerCalls, last, brokerBad, credentials>>

\* lines 69-70: `if not ACCESS_TOKEN: raise ApiError(...)`
Test ==
    \E p \in Threads :
        /\ pc[p] = "test"
        /\ IF ~Truthy(ACCESS_TOKEN)
           THEN Finish(p, Raised(NoTokenError))
           ELSE pc' = [pc EXCEPT ![p] = "return"] /\ UNCHANGED retval
        /\ UNCHANGED <<environ, requestsCompat, ACCESS_TOKEN, brokerCalls, last, brokerBad,
                       everValid, credentials>>

\* line 71: `return ACCESS_TOKEN`
Return ==
    \E p \in Threads :
        /\ pc[p] = "return"
        /\ Finish(p, Returned(ACCESS_TOKEN))
        /\ UNCHANGED <<environ, requestsCompat, ACCESS_TOKEN, brokerCalls, last, brokerBad,
                       everValid, credentials>>

NextRace == Check \/ ReturnCached \/ Fetch \/ Store \/ Test \/ Return

SpecRace == Init /\ [][NextRace]_vars

(***************************************************************************)
(* Properties of the sequential program.                                   *)
(***************************************************************************)
\* e is an ApiError whose message starts with the literal `head`
ApiErrorWith(e, head) == e.cls = "ApiError" /\ Len(e.msg) >= 1 /\ e.msg[1] = Lit(head)

Is2xx(resp) == resp.t = "http" /\ resp.status >= 200 /\ resp.status < 300

\* the last call was a make_request (direct, not through a tool) that received an
\* HTTP answer from the target API
GotApiAnswer == last.op = "make_request" /\ last.apiSent = 1 /\ last.aresp.t = "http"

\* the token the last call handed out: returned (get_access_token) or sent as bearer
HandedOut(tok) ==
    /\ ~last.tokenRaised
    /\ last.op = "get_access_token" => (~last.raised /\ last.value = tok)
    /\ (last.op = "make_request" /\ last.apiSent = 1) => last.request.auth = tok

\* C1: starting from an empty cache, as long as the configuration is complete and
\* the broker answers every fetch with a non-empty access_token, the broker is
\* contacted exactly once, by the first call, and every call hands out the token
\* that is cached; a call that finds the cache filled makes no broker request.
C1_FetchedExactlyOnce ==
    (last.op # "none" /\ ConfigComplete(environ) /\ ~brokerBad) =>
        /\ brokerCalls = 1
        /\ Truthy(ACCESS_TOKEN)
        /\ HandedOut(ACCESS_TOKEN)
        /\ Truthy(last.tokBefore) => (last.brokerSent = 0 /\ last.tokBefore = ACCESS_TOKEN)

\* C1 witness: a later call that sent a request with the cached token, one fetch in all
C1_Witness ==
    /\ last.op = "make_request" /\ Truthy(last.tokBefore) /\ last.apiSent = 1
    /\ ~brokerBad /\ brokerCalls = 1 /\ last.request.auth = ACCESS_TOKEN

\* the 2xx broker answers whose payload carries no credentials.access_token
TokenlessResponses ==
    {HttpResponse(200, "OK", JsonBody(p)) :
        p \in BrokerPayloads \ {TokenPayload(tok) : tok \in Tokens}}

\* C2: when the cache is empty and the broker answers 2xx with a payload without
\* credentials.access_token, get_access_token raises, and a make_request that
\* triggered the fetch raises "Authentication failed: ..." without sending any
\* request to the target API.
C2_TokenlessPayloadFails ==
    (last.brokerSent = 1 /\ last.bresp \in TokenlessResponses) =>
        /\ last.raised /\ last.tokenRaised
        /\ last.exc.cls = "ApiError"
        /\ last.apiSent = 0 /\ last.request = NoRequest
        /\ last.op = "make_request" => ApiErrorWith(last.exc, "Authentication failed: ")

\* C2 witness: a make_request whose fetch met a payload with an empty credentials object
C2_Witness ==
    /\ last.op = "make_request" /\ last.brokerSent = 1
    /\ last.bresp = HttpResponse(200, "OK", JsonBody(JObj([credentials |-> JObj(EmptyMap)])))
    /\ last.raised /\ last.apiSent = 0

\* the error make_request is documented to raise for each status
ExpectedStatusError(resp) ==
    CASE resp.status = 401 -> ApiErrorWith(last.exc, "Unauthorized: Invalid access token")
      [] resp.status = 403 -> ApiErrorWith(last.exc, "Forbidden: Insufficient permissions")
      [] resp.status = 404 -> ApiErrorWith(last.exc, "Not Found: Resource does not exist")
      [] resp.status = 422 -> ApiErrorWith(last.exc, "Validation Error: ")
      [] OTHER -> last.exc = ApiError(<<Lit("HTTP "), Num(resp.status), Lit(": "),
                                        Lit(resp.reason)>>)

\* C3: for every answer of the target API with status 401, 403, 404, 422 or 500,
\* make_request raises the error of the corresponding kind, after one request.
C3_StatusMapsToKind ==
    (GotApiAnswer /\ last.aresp.status \in {401, 403, 404, 422, 500}) =>
        /\ last.raised
        /\ ExpectedStatusError(last.aresp)
        /\ last.apiSent = 1

\* C4: a 2xx answer with a non-empty body that is not JSON makes make_request raise
\* "Invalid JSON response from API", never "Request failed: ..." and never a result.
C4_MalformedBody ==
    (GotApiAnswer /\ Is2xx(last.aresp) /\ last.aresp.body = GarbageBody) =>
        /\ last.raised
        /\ last.exc = ApiError(<<Lit("Invalid JSON response from API")>>)

\* C5: a 2xx answer with an empty body makes make_request return the empty mapping
\* and raise nothing, for each of GET, POST, PUT and DELETE.
C5_EmptyBodyIsEmptyMapping ==
    (GotApiAnswer /\ Is2xx(last.aresp) /\ last.aresp.body = EmptyBody) =>
        /\ ~last.raised
        /\ last.value = JObj(EmptyMap)
        /\ last.request.method \in SupportedMethods

\* C5 witness: a DELETE answered 204 with no body
C5_Witness ==
    /\ GotApiAnswer /\ last.request.method = "DELETE"
    /\ last.aresp = HttpResponse(204, "No Content", EmptyBody)
    /\ ~last.raised

\* C6: make_request with a method other than GET, POST, PUT, DELETE raises
\* "Unsupported HTTP method" having made no request at all, neither to the target
\* API nor to the credential broker, whatever the cache holds.
C6_UnsupportedBeforeAnyIO ==
    (last.op = "make_request" /\ Upper(last.method) \notin SupportedMethods) =>
        /\ last.raised
        /\ ApiErrorWith(last.exc, "Unsupported HTTP method: ")
        /\ last.apiSent = 0
        /\ last.brokerSent = 0

\* the `errors` a 422 answer is documented to carry: the field of the parsed body,
\* the empty mapping when the body is absent or does not parse
DocumentedErrors(body) ==
    IF body.t = "json" /\ body.j.t = "obj" /\ "errors" \in DOMAIN body.j.o
    THEN body.j.o["errors"]
    ELSE JObj(EmptyMap)

\* C7: a 422 answer always makes make_request raise "Validation Error: <errors>",
\* with the empty mapping when the body is absent or unparsable.
C7_ValidationCarriesErrors ==
    (GotApiAnswer /\ last.aresp.status = 422) =>
        /\ last.raised
        /\ last.exc = ApiError(<<Lit("Validation Error: "),
                                 Val(DocumentedErrors(last.aresp.body))>>)

\* C9: a call that found a non-empty token in the cache left it as it was, made no
\* broker request, and sent that token, whatever the target API answered.
C9_CachedTokenIsKept ==
    Truthy(last.tokBefore) =>
        /\ ACCESS_TOKEN = last.tokBefore
        /\ last.brokerSent = 0
        /\ last.apiSent = 1 => last.request.auth = last.tokBefore
        /\ everValid

\* C9 witness: a call on a filled cache that the target API answered with 401
C9_Witness ==
    /\ Truthy(last.tokBefore) /\ GotApiAnswer /\ last.aresp.status = 401
    /\ last.raised /\ ACCESS_TOKEN = last.tokBefore

\* C11: a network-level failure of the request to the target API makes make_request
\* raise "Request failed: <underlying message>" at once: the request was sent once,
\* and no make_request call sends more than one request to the target API.
C11_TransportFailsAtOnce ==
    /\ last.op = "make_request" => last.apiSent <= 1
    /\ (last.op = "make_request" /\ last.aresp.t = "transport") =>
          /\ last.raised
          /\ last.exc = ApiError(<<Lit("Request failed: ")>> \o last.aresp.err.msg)
          /\ last.apiSent = 1

\* C11 witness: a make_request whose request failed to resolve the host
C11_Witness ==
    /\ last.op = "make_request" /\ last.raised /\ last.apiSent = 1
    /\ last.aresp = TransportError("ConnectionError", "name resolution failed")

\* one of the four settings is absent from the environment
SettingAbsent == \E k \in EnvNames : environ[k] = JNull

\* C17: with an empty cache and one of the four settings absent, every call fails
\* with the "Missing Nango configuration" error, sends no HTTP request to the
\* broker or to the target API, and leaves the cache empty.
C17_MissingSettingFailsOffline ==
    (SettingAbsent /\ last.op # "none") =>
        /\ last.raised /\ last.tokenRaised
        /\ last.exc = IF last.op = "get_access_token" THEN MissingConfigError
                      ELSE ApiError(<<Lit("Authentication failed: ")>>
                                    \o MissingConfigError.msg)
        /\ last.brokerSent = 0 /\ brokerCalls = 0
        /\ last.apiSent = 0 /\ last.request = NoRequest
        /\ ACCESS_TOKEN = JStr("")

\* C17 witness: a make_request that failed because NANGO_BASE_URL is not set
C17_Witness ==
    /\ environ["NANGO_BASE_URL"] = JNull /\ environ["NANGO_SECRET_KEY"] # JNull
    /\ last.op = "make_request" /\ last.raised /\ last.brokerSent = 0

\* C19: in sequential runs a get_access_token that raises leaves the cache empty
\* and nothing is sent to the target API by that call; a call that finds the
\* cache empty fetches afresh (it contacts the broker whenever the settings are
\* complete); and every request sent to the target API carries a non-empty token.
C19_FailuresAreNotCached ==
    /\ last.tokenRaised => (~Truthy(ACCESS_TOKEN) /\ last.apiSent = 0)
    /\ (last.op # "none" /\ ~Truthy(last.tokBefore) /\ ConfigComplete(environ)) =>
          last.brokerSent = 1
    /\ last.apiSent >= 1 => Truthy(last.request.auth)

\* C19 witness: after a failed fetch, a call fetched again and sent its request
C19_Witness ==
    /\ brokerBad /\ brokerCalls = 2 /\ last.brokerSent = 1
    /\ ~last.tokenRaised /\ last.apiSent = 1 /\ Truthy(last.request.auth)

(***************************************************************************)
(* Properties of the tool functions.                                       *)
(***************************************************************************)
\* the mapping under the wrapper key of the body the last call put on the wire
SentFields == last.request.json.o[UpdateOp(last.op).wrapper].o

\* C8: the body an update operation PUTs holds, under its wrapper key, no key for
\* an argument that was omitted (None) and, for every argument supplied with a
\* non-null value - empty string, 0 and false included - the argument's key with
\* that value.
C8_UpdateBodyOmitsAbsent ==
    (last.op \in UpdateOps /\ last.apiSent = 1) =>
        /\ last.request.method = "PUT"
        /\ DOMAIN last.request.json.o = {UpdateOp(last.op).wrapper}
        /\ \A i \in 1..Len(UpdateOp(last.op).args) :
             LET a == UpdateOp(last.op).args[i]
             IN  IF last.args[a.name] = JNull
                 THEN a.key \notin DOMAIN SentFields
                 ELSE a.key \in DOMAIN SentFields /\ SentFields[a.key] = last.args[a.name]
        /\ DOMAIN SentFields \subseteq
              {UpdateOp(last.op).args[i].key : i \in 1..Len(UpdateOp(last.op).args)}

\* C8 witness: update_event sent with day omitted, from_time empty, note supplied
C8_Witness ==
    /\ last.op = "update_event" /\ last.apiSent = 1
    /\ last.args["day"] = JNull /\ last.args["from_time"] = JStr("")
    /\ last.args["note"] = JStr("x")
    /\ DOMAIN SentFields = {"from", "note"} \cup
                           (IF last.args["to_time"] = JNull THEN {} ELSE {"to"})

\* the tools that answer with one record or a confirmation
SingleOps == GetOps \cup CreateOps \cup DeleteOps \cup TimerOps

\* the tools that answer with a collection
CollectionOps == ListOps \cup {"list_accounts"}

\* C12: every failure a tool reports is an Exception whose message starts with
\* the operation's "Failed to ..." prefix, whatever raised the failure.
C12_FailuresCarryPrefix ==
    (last.op \in SingleOps \cup CollectionOps \cup UpdateOps /\ last.raised) =>
        /\ last.exc.cls = "Exception"
        /\ Len(last.exc.msg) >= 1
        /\ last.exc.msg[1] = Lit("Failed to ")

\* the model class and the result key of the collection tool last called
LastModel == IF last.op = "list_accounts" THEN "Account" ELSE ListOp(last.op).model
LastKey == IF last.op = "list_accounts" THEN "accounts" ELSE ListOp(last.op).key

\* the last call was a collection tool answered 2xx with a JSON body
GotCollectionAnswer ==
    /\ last.op \in CollectionOps /\ last.apiSent = 1
    /\ Is2xx(last.aresp) /\ last.aresp.body.t = "json"

\* the record a list operation is to return for an item: the validated record,
\* or for an item failing validation one with the item's id (0 when absent) and
\* its name (some placeholder string when absent)
RecordFor(item, rec) ==
    IF ~ModelValidate(LastModel, item).raised
    THEN rec = ModelValidate(LastModel, item).value
    ELSE /\ rec.t = "obj" /\ {"id", "name"} \subseteq DOMAIN rec.o
         /\ rec.o["id"] = DictGet(item, "id", JInt(0))
         /\ IF "name" \in DOMAIN item.o THEN rec.o["name"] = item.o["name"]
            ELSE rec.o["name"].t = "str"

\* the last call succeeded and returned one record for each of items, in order
ReturnedFor(items) ==
    /\ ~last.raised
    /\ last.value.t = "obj" /\ DOMAIN last.value.o = {LastKey}
    /\ last.value.o[LastKey].t = "arr"
    /\ Len(last.value.o[LastKey].a) = Len(items)
    /\ \A i \in 1..Len(items) : RecordFor(items[i], last.value.o[LastKey].a[i])

\* C13: a list operation answered 2xx with an array of objects of which one fails
\* validation succeeds, and returns that item as a minimal record of its id and name.
C13_InvalidItemDegrades ==
    (/\ GotCollectionAnswer
     /\ last.aresp.body.j.t = "arr"
     /\ \A i \in 1..Len(last.aresp.body.j.a) : last.aresp.body.j.a[i].t = "obj"
     /\ \E i \in 1..Len(last.aresp.body.j.a) :
           ModelValidate(LastModel, last.aresp.body.j.a[i]).raised)
    => ReturnedFor(last.aresp.body.j.a)

\* the items the three documented shapes of a parsed body stand for
NormalItems(body) ==
    IF body.t = "arr" THEN body.a
    ELSE IF LastKey \in DOMAIN body.o /\ body.o[LastKey].t = "arr" THEN body.o[LastKey].a
    ELSE <<body>>

\* C14: a list operation answered 2xx with a bare array, with an object holding
\* the array under the resource's key, or with any other object returns the
\* records of exactly those items, in order (here: items that all validate).
C14_BodyIsNormalized ==
    (/\ GotCollectionAnswer
     /\ last.aresp.body.j.t \in {"arr", "obj"}
     /\ \A i \in 1..Len(NormalItems(last.aresp.body.j)) :
           ~ModelValidate(LastModel, NormalItems(last.aresp.body.j)[i]).raised)
    => ReturnedFor(NormalItems(last.aresp.body.j))

\* C15: create_event POSTs to the project's events path whenever a project_id is
\* supplied and to the account's events path only when it is omitted, and the
\* event mapping of the body carries from_time and to_time under `from` and `to`.
C15_CreateEventPath ==
    (last.op = "create_event" /\ last.apiSent = 1) =>
        /\ last.request.method = "POST"
        /\ last.request.url =
              IF last.args["project_id"] # JNull
              THEN <<BASE_URL, "/", IntStr(last.args["account_id"].n), "/projects/",
                     IntStr(last.args["project_id"].n), "/events">>
              ELSE <<BASE_URL, "/", IntStr(last.args["account_id"].n), "/events">>
        /\ {"from", "to"} \subseteq DOMAIN last.request.json.o["event"].o
        /\ last.request.json.o["event"].o["from"] = last.args["from_time"]
        /\ last.request.json.o["event"].o["to"] = last.args["to_time"]
        /\ {"from_time", "to_time"} \cap DOMAIN last.request.json.o["event"].o = {}

\* C16: a single-record tool whose one HTTP call the target API answered with a
\* 2xx status returns a result; it fails only when the HTTP call failed.
C16_SuccessIsShaped ==
    (last.op \in SingleOps /\ last.apiSent = 1 /\ Is2xx(last.aresp)) => ~last.raised

\* the optional arguments of the list or create tool last called, and the
\* mapping (query parameters or wrapped body) the call sent
LastOptional ==
    IF last.op \in ListOps THEN ListOp(last.op).params ELSE CreateOp(last.op).optional
LastMapping ==
    IF last.op \in ListOps THEN last.request.params.o
    ELSE last.request.json.o[CreateOp(last.op).wrapper].o

\* C18: the query or body mapping of a list or create operation holds the key of
\* an optional argument exactly when the caller supplied a non-null value for
\* it, 0 and the empty string included.
C18_KeyIffSupplied ==
    (last.op \in ListOps \cup CreateOps /\ last.apiSent = 1 /\ LastOptional # <<>>) =>
        \A i \in 1..Len(LastOptional) :
            IF last.args[LastOptional[i].name] = JNull
            THEN LastOptional[i].key \notin DOMAIN LastMapping
            ELSE /\ LastOptional[i].key \in DOMAIN LastMapping
                 /\ LastMapping[LastOptional[i].key] = last.args[LastOptional[i].name]

(***************************************************************************)
(* Properties of interleaved get_access_token calls.                       *)
(***************************************************************************)
\* the thread's own fetch returned a payload carrying a broker-issued token
FetchedToken(p) == credentials[p] \in {TokenPayload(tok) : tok \in Tokens}

\* C10: when get_access_token calls interleave on an empty cache the race is
\* harmless: there is at most one broker request per call, every finished call
\* whose own fetch returned a token returns a non-empty broker-issued token, and
\* once the cache has held a valid token it never holds an empty value again.
C10_RaceIsHarmless ==
    /\ brokerCalls <= MaxThreads
    /\ \A p \in Threads :
         (pc[p] = "done" /\ FetchedToken(p)) =>
             /\ ~retval[p].raised
             /\ retval[p].value \in {JStr(tok) : tok \in Tokens}
    /\ everValid => Truthy(ACCESS_TOKEN)

====
